---- MODULE Spec2Model ----
(***************************************************************************)
(* MCP-Monkey: the bridge server (mcp-monkey-server/index.js) and the      *)
(* browser extension's background worker (mcp-monkey-extension/            *)
(* background.js), as state machines.                                      *)
(*                                                                         *)
(* Spec      the server: sockets accepted by wss, the messages handled on  *)
(*           them, tool invocations by the agent, the deadline timers.     *)
(* FairSpec  Spec with the event loop's guarantee that time passes and an  *)
(*           expired timer's callback runs.                                *)
(* ExtSpec   the extension: connect / reconnect, onopen and                *)
(*           syncAllScripts, the heartbeat, ws.onmessage and the           *)
(*           executions it starts, the popup's changes to chrome.storage.  *)
(* ExtFairSpec  ExtSpec with the delivery of a pending close event and     *)
(*           the firing of an armed reconnect timer.                       *)
(* RegistrySpec the server's registry under script names that share a      *)
(*           tool name, with the registry calls made so far in `history`.  *)
(* LinkSpec  either end of the link, one at a time, with the payload       *)
(*           `null` among the server's inbound messages.                   *)
(* DispatchSpec RegistrySpec's messages and the invocations of the tools   *)
(*           the registry exposes.                                         *)
(* SaveSpec  the popup, the worker's connection and the server's registry  *)
(*           end to end: what the worker sends, the server handles.        *)
(*                                                                         *)
(* Every handler is one action.  A handler that awaits (syncAllScripts'    *)
(* storage read) is cut at the await.  The variable `out` holds what the   *)
(* last step emitted (messages handed to a socket, notifications to the    *)
(* agent), in order.                                                       *)
(***************************************************************************)
EXTENDS Integers, Sequences, FiniteSets, TLC

\* ------------------------------------------------------------------------
\* Bounds of the model
\* ------------------------------------------------------------------------
MaxSockets == 2
MaxCalls == 2
RandomSuffixes == 2
TickMs == 15000
MaxNow == 60000
MaxExtSockets == 2
MaxAttempt == 6
MaxPopupOps == 2
MaxHistory == 3
MaxExecs == 1

\* ------------------------------------------------------------------------
\* Program constants
\* ------------------------------------------------------------------------
EXECUTION_TIMEOUT_MS == 30000
RECONNECT_BASE_MS == 1000
RECONNECT_MAX_MS == 30000
WS_PORT == 8765

\* ------------------------------------------------------------------------
\* Server state (index.js)
\* ------------------------------------------------------------------------
VARIABLES
    scriptRegistry,     \* Map name -> {description, urlPattern, code}, in insertion order
    toolHandles,        \* Map toolName -> handle of the registered tool
    pendingRequests,    \* Map requestId -> {resolve, reject, timer}
    extensionSocket,    \* the held socket, or NoSocket
    readyState,         \* readyState of every socket wss has accepted
    timers,             \* the armed setTimeout timers, each named by its invocation
    calls,              \* the invocations of executeScriptInBrowser and their promises
    now,                \* Date.now()
    out,                \* what the last step emitted
    history,            \* the calls of registerScriptAsTool and unregisterScript made
                        \* by the messages that RegistrySpec handles, in order
    exited              \* the node process has ended

serverVars == <<scriptRegistry, toolHandles, pendingRequests, extensionSocket,
                readyState, timers, calls, now, out, history, exited>>

\* ------------------------------------------------------------------------
\* Extension state (background.js), chrome.storage and the popup
\* ------------------------------------------------------------------------
VARIABLES
    loaded,             \* the service worker has run its top level
    ws,                 \* the WebSocket held in `ws`, or NoSocket
    wsReadyState,       \* readyState of every WebSocket the worker created
    heartbeatTimer,     \* the interval held in heartbeatTimer, or NoTimer
    intervals,          \* the armed setInterval timers
    reconnectAttempt,
    isConnected,
    reconnectTimers,    \* the armed setTimeout(connect, delay) timers: their delays
    storage,            \* chrome.storage.local "scripts"
    syncTasks,          \* the calls of syncAllScripts that have not finished
    popupMessages,      \* chrome.runtime messages of the popup, not yet handled
    popupOps,           \* the number of popup operations so far
    wire,               \* the registry messages sent on each WebSocket that the
                        \* server has not handled yet, oldest first
    extOut,             \* what the worker's last step sent
    execTasks           \* the calls of handleExecuteScript: [requestId, done]

extVars == <<loaded, ws, wsReadyState, heartbeatTimer, intervals, reconnectAttempt,
             isConnected, reconnectTimers, storage, syncTasks, popupMessages,
             popupOps, wire, extOut, execTasks>>

Sockets == 1..MaxSockets
NoSocket == 0
NoTimer == 0
NoRequest == ""

\* The sockets accepted so far are 1..Len(readyState); the newest is the last.
Accepted == 1..Len(readyState)

\* ------------------------------------------------------------------------
\* JavaScript values carried by execution_result
\* ------------------------------------------------------------------------
JSString(s) == [t |-> "string", s |-> s, n |-> 0]
JSNumber(n) == [t |-> "number", s |-> "", n |-> n]
JSNull == [t |-> "null", s |-> "", n |-> 0]
\* An optional string field: absent (undefined) or a string.
Undefined == [def |-> FALSE, s |-> ""]
Str(s) == [def |-> TRUE, s |-> s]
\* JavaScript truthiness of an optional string: undefined and "" are falsy.
Truthy(e) == e.def /\ e.s # ""
\* x || "" for an optional string
OrEmpty(e) == IF Truthy(e) THEN e.s ELSE ""

\* JSON.stringify(result, null, 2) of a value that is not a string
JSONStringify(v) ==
    CASE v.t = "number" -> ToString(v.n)
      [] v.t = "null" -> "null"
      [] OTHER -> "\"" \o v.s \o "\""

\* typeof result === "string" ? result : JSON.stringify(result, null, 2)
ResultText(v) == IF v.t = "string" THEN v.s ELSE JSONStringify(v)

\* ------------------------------------------------------------------------
\* Results the invocation promise is resolved with
\* ------------------------------------------------------------------------
NotConnectedResult ==
    [isError |-> TRUE,
     text |-> "Error: Chrome extension is not connected. Please ensure MCP-Monkey extension is running and connected."]

TimedOutResult ==
    [isError |-> TRUE,
     text |-> "Error: Script execution timed out after "
              \o ToString(EXECUTION_TIMEOUT_MS \div 1000) \o "s"]

PeerErrorResult(error) ==
    [isError |-> TRUE, text |-> "Script execution error: " \o error]

SuccessResult(result) == [isError |-> FALSE, text |-> ResultText(result)]

\* The result of a promise that is not settled yet.
NoResult == [isError |-> FALSE, text |-> ""]

\* ------------------------------------------------------------------------
\* Events of `out`
\* ------------------------------------------------------------------------
SendEvent(sock, msg) == [ev |-> "send", to |-> sock, msg |-> msg]
NotifyEvent == [ev |-> "tools_list_changed"]

\* ------------------------------------------------------------------------
\* Maps with insertion order are sequences of <<key, value>> records
\* ------------------------------------------------------------------------
Keys(map) == {map[i].key : i \in 1..Len(map)}
IndexOf(map, k) == CHOOSE i \in 1..Len(map) : map[i].key = k
MapGet(map, k) == map[IndexOf(map, k)].value
\* Map.prototype.set: an existing key keeps its position
MapSet(map, k, v) ==
    IF k \in Keys(map)
    THEN [map EXCEPT ![IndexOf(map, k)] = [key |-> k, value |-> v]]
    ELSE Append(map, [key |-> k, value |-> v])
\* Map.prototype.delete
MapDelete(map, k) ==
    IF k \in Keys(map)
    THEN LET i == IndexOf(map, k)
         IN SubSeq(map, 1, i - 1) \o SubSeq(map, i + 1, Len(map))
    ELSE map

\* ------------------------------------------------------------------------
\* Tool names: `monkey_${name.replace(/[^a-zA-Z0-9_-]/g, "_").toLowerCase()}`
\* ------------------------------------------------------------------------
LowerLetters == "abcdefghijklmnopqrstuvwxyz"
UpperLetters == "ABCDEFGHIJKLMNOPQRSTUVWXYZ"
SafeChars == LowerLetters \o UpperLetters \o "0123456789" \o "_-"

CharAt(str, i) == SubSeq(str, i, i)
Occurs(ch, str) == \E i \in 1..Len(str) : CharAt(str, i) = ch

\* one character through replace(/[^a-zA-Z0-9_-]/g, "_")
ReplaceUnsafe(ch) == IF Occurs(ch, SafeChars) THEN ch ELSE "_"

\* one character through toLowerCase()
ToLowerCase(ch) ==
    IF Occurs(ch, UpperLetters)
    THEN CharAt(LowerLetters, CHOOSE i \in 1..Len(UpperLetters) : CharAt(UpperLetters, i) = ch)
    ELSE ch

RECURSIVE FoldName(_)
FoldName(name) ==
    IF name = "" THEN ""
    ELSE ToLowerCase(ReplaceUnsafe(CharAt(name, 1))) \o FoldName(SubSeq(name, 2, Len(name)))

ToolName(name) == "monkey_" \o FoldName(name)

\* ------------------------------------------------------------------------
\* Dynamic tool registration.  A registration state is the pair of maps
\* [registry |-> scriptRegistry, handles |-> toolHandles].  A handle is the
\* tool registered with mcpServer under toolName whose callback calls
\* executeScriptInBrowser(name, args); handle.remove() takes that tool away,
\* so the tools the agent sees are exactly the handles held.
\* ------------------------------------------------------------------------
Handle(toolName, name) == [tool |-> toolName, name |-> name]

Without(f, k) == [x \in DOMAIN f \ {k} |-> f[x]]

\* Mutant: the registry gets a new entry at every call.
registerScriptAsToolAppends(st, name, description, urlPattern, code) ==
    LET toolName == ToolName(name)
        removed == IF toolName \in DOMAIN st.handles
                   THEN Without(st.handles, toolName)
                   ELSE st.handles
    IN [registry |-> Append(st.registry,
                            [key |-> name,
                             value |-> [description |-> description,
                                        urlPattern |-> urlPattern,
                                        code |-> code]]),
        handles |-> (toolName :> Handle(toolName, name)) @@ removed]

registerScriptAsTool(st, name, description, urlPattern, code) ==
    LET toolName == ToolName(name)
        \* existingHandle.remove(), when there is one
        removed == IF toolName \in DOMAIN st.handles
                   THEN Without(st.handles, toolName)
                   ELSE st.handles
    IN [registry |-> MapSet(st.registry, name,
                            [description |-> description,
                             urlPattern |-> urlPattern,
                             code |-> code]),
        handles |-> (toolName :> Handle(toolName, name)) @@ removed]

\* Mutant: the registry entry is deleted and the tool is left.
unregisterScriptKeepsTool(st, name) ==
    [registry |-> MapDelete(st.registry, name), handles |-> st.handles]

unregisterScript(st, name) ==
    LET toolName == ToolName(name)
    IN [registry |-> MapDelete(st.registry, name),
        handles |-> IF toolName \in DOMAIN st.handles
                    THEN Without(st.handles, toolName)
                    ELSE st.handles]

\* for (const script of scripts) registerScriptAsTool(...)
RECURSIVE RegisterAll(_, _)
RegisterAll(st, scripts) ==
    IF scripts = <<>> THEN st
    ELSE RegisterAll(registerScriptAsTool(st, Head(scripts).name,
                                          Head(scripts).description,
                                          Head(scripts).urlPattern,
                                          Head(scripts).code),
                     Tail(scripts))

RegState == [registry |-> scriptRegistry, handles |-> toolHandles]

\* ------------------------------------------------------------------------
\* Script execution
\* ------------------------------------------------------------------------
\* `req_${Date.now()}_${Math.random().toString(36).slice(2, 8)}`: the random
\* suffix is one of RandomSuffixes values.
RequestId(time, rnd) == "req_" \o ToString(time) \o "_" \o ToString(rnd)

Connected ==
    /\ extensionSocket # NoSocket
    /\ readyState[extensionSocket] = "OPEN"

ExecuteScriptMsg(requestId, scriptName, args) ==
    LET found == scriptName \in Keys(scriptRegistry)
    IN [type |-> "execute_script",
        requestId |-> requestId,
        scriptName |-> scriptName,
        code |-> IF found THEN MapGet(scriptRegistry, scriptName).code ELSE "",
        urlPattern |-> IF found THEN MapGet(scriptRegistry, scriptName).urlPattern ELSE "",
        args |-> OrEmpty(args)]

\* An invocation: its promise (settled, result; resolveCalls and rejectCalls
\* count the calls of resolve and of reject; result is what resolve gave
\* of resolve) and what the closures of its timer and of its pendingRequests
\* entry hold (requestId; deadline is the time its timer was armed for).
Call(requestId, deadline, settled, result) ==
    [requestId |-> requestId, deadline |-> deadline, settled |-> settled,
     result |-> result, resolveCalls |-> IF settled THEN 1 ELSE 0, rejectCalls |-> 0]

\* reject(...) on the promise of invocation c: the first call settles it, and
\* the promise carries no result.
Reject(cs, c) ==
    IF cs[c].settled
    THEN [cs EXCEPT ![c].rejectCalls = @ + 1]
    ELSE [cs EXCEPT ![c].settled = TRUE, ![c].rejectCalls = @ + 1]

\* resolve(result) on the promise of invocation c: the first call settles it.
Resolve(cs, c, result) ==
    IF cs[c].settled
    THEN [cs EXCEPT ![c].resolveCalls = @ + 1]
    ELSE [cs EXCEPT ![c].settled = TRUE, ![c].result = result, ![c].resolveCalls = @ + 1]

\* Mutant: the early return is missing, so the invocation goes on to arm a
\* timer and to store an entry.
ExecuteNotConnectedNoReturn(scriptName, args) ==
    LET c == Len(calls) + 1
        requestId == RequestId(now, 1)
    IN /\ ~Connected
       /\ timers' = timers \cup {c}
       /\ pendingRequests' = (requestId :> [resolve |-> c, reject |-> c, timer |-> c])
                             @@ pendingRequests
       /\ calls' = Append(calls, Call(requestId, now + EXECUTION_TIMEOUT_MS, TRUE,
                                      NotConnectedResult))
       /\ out' = <<>>

\* The invocation finds no socket, or one that is not OPEN.
ExecuteNotConnected(scriptName, args) ==
    LET c == Len(calls) + 1
    IN /\ ~Connected
       /\ calls' = Append(calls, Call(NoRequest, 0, TRUE, NotConnectedResult))
       /\ out' = <<>>
       /\ UNCHANGED <<pendingRequests, timers>>

\* Mutant: the invocation is dispatched without a timer.
ExecuteDispatchNoTimer(scriptName, args, rnd) ==
    LET c == Len(calls) + 1
        requestId == RequestId(now, rnd)
    IN /\ Connected
       /\ now + EXECUTION_TIMEOUT_MS + TickMs <= MaxNow
       /\ timers' = timers
       /\ pendingRequests' = (requestId :> [resolve |-> c, reject |-> c, timer |-> c])
                             @@ pendingRequests
       /\ calls' = Append(calls, Call(requestId, now + EXECUTION_TIMEOUT_MS, FALSE, NoResult))
       /\ out' = <<SendEvent(extensionSocket,
                             ExecuteScriptMsg(requestId, scriptName, args))>>

\* Mutant: the message is sent and the entry is not stored.
ExecuteDispatchNoEntry(scriptName, args, rnd) ==
    LET c == Len(calls) + 1
        requestId == RequestId(now, rnd)
    IN /\ Connected
       /\ now + EXECUTION_TIMEOUT_MS + TickMs <= MaxNow
       /\ timers' = timers \cup {c}
       /\ pendingRequests' = pendingRequests
       /\ calls' = Append(calls, Call(requestId, now + EXECUTION_TIMEOUT_MS, FALSE, NoResult))
       /\ out' = <<SendEvent(extensionSocket,
                             ExecuteScriptMsg(requestId, scriptName, args))>>

\* The invocation is dispatched: timer armed, entry stored, message sent.
ExecuteDispatch(scriptName, args, rnd) ==
    LET c == Len(calls) + 1
        requestId == RequestId(now, rnd)
    IN /\ Connected
       /\ now + EXECUTION_TIMEOUT_MS + TickMs <= MaxNow
       /\ timers' = timers \cup {c}
       /\ pendingRequests' = (requestId :> [resolve |-> c, reject |-> c, timer |-> c])
                             @@ pendingRequests
       /\ calls' = Append(calls, Call(requestId, now + EXECUTION_TIMEOUT_MS, FALSE, NoResult))
       /\ out' = <<SendEvent(extensionSocket,
                             ExecuteScriptMsg(requestId, scriptName, args))>>

executeScriptInBrowser(scriptName, args, rnd) ==
    \/ ExecuteNotConnected(scriptName, args)
    \/ ExecuteDispatch(scriptName, args, rnd)

\* The agent calls a registered script tool.
Invoke(toolName, args, rnd) ==
    /\ Len(calls) < MaxCalls
    /\ toolName \in DOMAIN toolHandles
    /\ executeScriptInBrowser(toolHandles[toolName].name, args, rnd)
    /\ UNCHANGED <<scriptRegistry, toolHandles, extensionSocket, readyState, now>>
    /\ UNCHANGED <<extVars, history, exited>>

\* Mutant: the timeout callback resolves but leaves the entry in the table.
TimerFireKeepsEntry(c) ==
    /\ c \in timers
    /\ now >= calls[c].deadline
    /\ timers' = timers \ {c}
    /\ pendingRequests' = pendingRequests
    /\ calls' = Resolve(calls, c, TimedOutResult)
    /\ out' = <<>>
    /\ UNCHANGED <<scriptRegistry, toolHandles, extensionSocket, readyState, now>>
    /\ UNCHANGED <<extVars, history, exited>>

\* Mutant: the timeout callback rejects the promise.
TimerFireRejects(c) ==
    /\ c \in timers
    /\ now >= calls[c].deadline
    /\ timers' = timers \ {c}
    /\ pendingRequests' = Without(pendingRequests, calls[c].requestId)
    /\ calls' = Reject(calls, c)
    /\ out' = <<>>
    /\ UNCHANGED <<scriptRegistry, toolHandles, extensionSocket, readyState, now>>
    /\ UNCHANGED <<extVars, history, exited>>

\* The setTimeout callback of invocation c.
TimerFire(c) ==
    /\ c \in timers
    /\ now >= calls[c].deadline
    /\ timers' = timers \ {c}
    /\ pendingRequests' = Without(pendingRequests, calls[c].requestId)
    /\ calls' = Resolve(calls, c, TimedOutResult)
    /\ out' = <<>>
    /\ UNCHANGED <<scriptRegistry, toolHandles, extensionSocket, readyState, now>>
    /\ UNCHANGED <<extVars, history, exited>>

\* Time passes.
Tick ==
    /\ now + TickMs <= MaxNow
    /\ now' = now + TickMs
    /\ out' = <<>>
    /\ UNCHANGED <<scriptRegistry, toolHandles, pendingRequests, extensionSocket,
                   readyState, timers, calls>>
    /\ UNCHANGED <<extVars, history, exited>>

\* ------------------------------------------------------------------------
\* WebSocket server: messages of the extension
\* ------------------------------------------------------------------------
EmptyMap == [k \in {} |-> 0]

\* data that JSON.parse rejects
InvalidJSON == [type |-> "#invalid_json"]

Script(name, description, urlPattern, code) ==
    [name |-> name, description |-> description, urlPattern |-> urlPattern, code |-> code]

RegisterScriptMsg(script) ==
    [type |-> "register_script", name |-> script.name, description |-> script.description,
     urlPattern |-> script.urlPattern, code |-> script.code]
UnregisterScriptMsg(name) == [type |-> "unregister_script", name |-> name]
\* isArray: Array.isArray(msg.scripts)
ScriptsSyncMsg(isArray, scripts) ==
    [type |-> "scripts_sync", isArray |-> isArray, scripts |-> scripts]
ExecutionResultMsg(requestId, result, error) ==
    [type |-> "execution_result", requestId |-> requestId, result |-> result, error |-> error]
PongMsg == [type |-> "pong"]

\* Mutant: the acknowledgement is sent before the notification.
OnRegisterScriptAckFirst(wsock, msg) ==
    LET st == registerScriptAsTool(RegState, msg.name, msg.description,
                                   msg.urlPattern, msg.code)
    IN /\ scriptRegistry' = st.registry
       /\ toolHandles' = st.handles
       /\ out' = <<SendEvent(wsock, [type |-> "script_registered", name |-> msg.name]),
                   NotifyEvent>>
       /\ UNCHANGED <<pendingRequests, timers, calls>>

\* case "register_script"
OnRegisterScript(wsock, msg) ==
    LET st == registerScriptAsTool(RegState, msg.name, msg.description,
                                   msg.urlPattern, msg.code)
    IN /\ scriptRegistry' = st.registry
       /\ toolHandles' = st.handles
       /\ out' = <<NotifyEvent,
                   SendEvent(wsock, [type |-> "script_registered", name |-> msg.name])>>
       /\ UNCHANGED <<pendingRequests, timers, calls>>

\* case "unregister_script"
OnUnregisterScript(wsock, msg) ==
    LET st == unregisterScript(RegState, msg.name)
    IN /\ scriptRegistry' = st.registry
       /\ toolHandles' = st.handles
       /\ out' = <<NotifyEvent,
                   SendEvent(wsock, [type |-> "script_unregistered", name |-> msg.name])>>
       /\ UNCHANGED <<pendingRequests, timers, calls>>

\* case "scripts_sync"
OnScriptsSync(wsock, msg) ==
    LET st == IF msg.isArray THEN RegisterAll(RegState, msg.scripts) ELSE RegState
    IN /\ scriptRegistry' = st.registry
       /\ toolHandles' = st.handles
       /\ out' = IF msg.isArray /\ Len(msg.scripts) > 0 THEN <<NotifyEvent>> ELSE <<>>
       /\ UNCHANGED <<pendingRequests, timers, calls>>

\* Mutant: the result handler does not clear the timer.
OnExecutionResultKeepsTimer(wsock, msg) ==
    IF msg.requestId \in DOMAIN pendingRequests
    THEN LET pending == pendingRequests[msg.requestId]
             result == IF Truthy(msg.error)
                       THEN PeerErrorResult(msg.error.s)
                       ELSE SuccessResult(msg.result)
         IN /\ timers' = timers
            /\ pendingRequests' = Without(pendingRequests, msg.requestId)
            /\ calls' = Resolve(calls, pending.resolve, result)
            /\ out' = <<>>
            /\ UNCHANGED <<scriptRegistry, toolHandles>>
    ELSE /\ out' = <<>>
         /\ UNCHANGED <<scriptRegistry, toolHandles, pendingRequests, timers, calls>>

\* case "execution_result"
OnExecutionResult(wsock, msg) ==
    IF msg.requestId \in DOMAIN pendingRequests
    THEN LET pending == pendingRequests[msg.requestId]
             result == IF Truthy(msg.error)
                       THEN PeerErrorResult(msg.error.s)
                       ELSE SuccessResult(msg.result)
         IN \* clearTimeout(pending.timer); pendingRequests.delete(requestId)
            /\ timers' = timers \ {pending.timer}
            /\ pendingRequests' = Without(pendingRequests, msg.requestId)
            /\ calls' = Resolve(calls, pending.resolve, result)
            /\ out' = <<>>
            /\ UNCHANGED <<scriptRegistry, toolHandles>>
    ELSE /\ out' = <<>>
         /\ UNCHANGED <<scriptRegistry, toolHandles, pendingRequests, timers, calls>>

\* invalid JSON, case "pong", default
OnIgnored(wsock, msg) ==
    /\ out' = <<>>
    /\ UNCHANGED <<scriptRegistry, toolHandles, pendingRequests, timers, calls>>

\* ws.on("message"): the handler of socket wsock runs on data. It is the
\* handler wss.on("connection") attached to wsock; it does not read
\* extensionSocket.
OnMessage(wsock, data) ==
    CASE data.type = "register_script" -> OnRegisterScript(wsock, data)
      [] data.type = "unregister_script" -> OnUnregisterScript(wsock, data)
      [] data.type = "scripts_sync" -> OnScriptsSync(wsock, data)
      [] data.type = "execution_result" -> OnExecutionResult(wsock, data)
      [] OTHER -> OnIgnored(wsock, data)

HandleMessage(wsock, data) ==
    /\ wsock \in Accepted
    /\ readyState[wsock] = "OPEN"
    /\ OnMessage(wsock, data)
    /\ UNCHANGED <<extensionSocket, readyState, now>>
    /\ UNCHANGED <<extVars, history, exited>>

\* ws.on("message") on the payload `null`: JSON.parse returns null and
\* `switch (msg.type)` throws a TypeError inside the async listener, so the
\* listener's promise is rejected and nothing handles the rejection.  Node
\* either only reports it or ends the process, by its --unhandled-rejections
\* mode (ending the process is the default); a process that ends closes its
\* sockets and answers nothing any more.
HandleNull(wsock, exits) ==
    /\ wsock \in Accepted
    /\ readyState[wsock] = "OPEN"
    /\ exited' = exits
    /\ readyState' = IF exits THEN [i \in DOMAIN readyState |-> "CLOSED"] ELSE readyState
    /\ out' = <<>>
    /\ UNCHANGED <<scriptRegistry, toolHandles, pendingRequests, extensionSocket,
                   timers, calls, now, history>>
    /\ UNCHANGED extVars

\* ------------------------------------------------------------------------
\* WebSocket server: connections
\* ------------------------------------------------------------------------
\* wss.on("connection"): a new socket, OPEN, becomes the held socket.
Connection ==
    /\ Len(readyState) < MaxSockets
    /\ readyState' = Append(readyState, "OPEN")
    /\ extensionSocket' = Len(readyState) + 1
    /\ out' = <<>>
    /\ UNCHANGED <<scriptRegistry, toolHandles, pendingRequests, timers, calls, now>>
    /\ UNCHANGED <<extVars, history, exited>>

\* Mutant: the close handler clears the reference whichever socket closed.
OnCloseAlwaysClears(wsock) ==
    extensionSocket' = NoSocket

\* ws.on("close")
OnClose(wsock) ==
    extensionSocket' = IF extensionSocket = wsock THEN NoSocket ELSE extensionSocket

\* Mutant: the close of a socket fails the requests in flight at once.
SocketCloseFailsPending(wsock) ==
    /\ wsock \in Accepted
    /\ readyState[wsock] \in {"OPEN", "CLOSING"}
    /\ readyState' = [readyState EXCEPT ![wsock] = "CLOSED"]
    /\ extensionSocket' = IF extensionSocket = wsock THEN NoSocket ELSE extensionSocket
    /\ pendingRequests' = EmptyMap
    /\ timers' = {}
    /\ calls' = [c \in 1..Len(calls) |->
                    IF calls[c].settled THEN calls[c]
                    ELSE [calls[c] EXCEPT !.settled = TRUE, !.result = NotConnectedResult,
                                          !.resolveCalls = @ + 1]]
    /\ out' = <<>>
    /\ UNCHANGED <<scriptRegistry, toolHandles, now>>
    /\ UNCHANGED <<extVars, history, exited>>

SocketClose(wsock) ==
    /\ wsock \in Accepted
    /\ readyState[wsock] \in {"OPEN", "CLOSING"}
    /\ readyState' = [readyState EXCEPT ![wsock] = "CLOSED"]
    /\ OnClose(wsock)
    /\ out' = <<>>
    /\ UNCHANGED <<scriptRegistry, toolHandles, pendingRequests, timers, calls, now>>
    /\ UNCHANGED <<extVars, history, exited>>

\* ws.on("error"): the handler only logs
OnError(wsock) ==
    extensionSocket' = extensionSocket

\* The socket emits "error": it has left OPEN by then, and its "close"
\* follows as an event of its own.
SocketError(wsock) ==
    /\ wsock \in Accepted
    /\ readyState[wsock] = "OPEN"
    /\ readyState' = [readyState EXCEPT ![wsock] = "CLOSING"]
    /\ OnError(wsock)
    /\ out' = <<>>
    /\ UNCHANGED <<scriptRegistry, toolHandles, pendingRequests, timers, calls, now>>
    /\ UNCHANGED <<extVars, history, exited>>

\* ------------------------------------------------------------------------
\* Inputs
\* ------------------------------------------------------------------------
SpecScripts == {Script("a", "d1", "u1", "c1")}

ArgValues == {Undefined, Str("{}")}
ResultValues == {JSString("ok"), JSNumber(7)}
ErrorValues == {Undefined, Str(""), Str("boom")}

\* A request id no invocation was given.
UnknownRequestId == "req_0_0"
DispatchedIds == {calls[c].requestId : c \in 1..Len(calls)} \ {NoRequest}

ExecutionResults ==
    {ExecutionResultMsg(r, v, e) :
        r \in DispatchedIds \cup {UnknownRequestId}, v \in ResultValues, e \in ErrorValues}

\* What a peer may send on a socket.
Inbound ==
    {RegisterScriptMsg(s) : s \in SpecScripts}
    \cup {UnregisterScriptMsg(s.name) : s \in SpecScripts}
    \cup {ScriptsSyncMsg(TRUE, <<s>>) : s \in SpecScripts}
    \cup {ScriptsSyncMsg(TRUE, <<>>), ScriptsSyncMsg(FALSE, <<>>)}
    \cup ExecutionResults
    \cup {PongMsg, [type |-> "unknown_type"], InvalidJSON}

\* ------------------------------------------------------------------------
\* The registry under names that share a tool name
\* ------------------------------------------------------------------------
\* "a" and "A" both give monkey_a; "a" is sent with two descriptions.
RegistryScripts ==
    {Script("a", "d1", "u1", "c1"), Script("a", "d2", "u1", "c1"),
     Script("A", "d1", "u1", "c1"), Script("b", "d1", "u1", "c1")}
RegistryNames == {s.name : s \in RegistryScripts}

RegistryInbound ==
    {RegisterScriptMsg(s) : s \in RegistryScripts}
    \cup {UnregisterScriptMsg(n) : n \in RegistryNames}
    \cup {ScriptsSyncMsg(TRUE, <<>>), ScriptsSyncMsg(FALSE, <<>>),
          ScriptsSyncMsg(TRUE, <<Script("b", "d1", "u1", "c1")>>),
          ScriptsSyncMsg(TRUE, <<Script("a", "d1", "u1", "c1"),
                                 Script("A", "d1", "u1", "c1")>>)}

RegisterCall(script) == [call |-> "register", script |-> script]
UnregisterCall(name) == [call |-> "unregister", script |-> Script(name, "", "", "")]

\* the calls of registerScriptAsTool / unregisterScript the handler of data makes
CallsOf(data) ==
    CASE data.type = "register_script" ->
             <<RegisterCall(Script(data.name, data.description, data.urlPattern,
                                   data.code))>>
      [] data.type = "unregister_script" -> <<UnregisterCall(data.name)>>
      [] data.type = "scripts_sync" ->
             IF data.isArray
             THEN [i \in 1..Len(data.scripts) |-> RegisterCall(data.scripts[i])]
             ELSE <<>>
      [] OTHER -> <<>>

\* ws.on("message"), with the calls it makes appended to history
HandleMessageLogged(wsock, data) ==
    /\ wsock \in Accepted
    /\ readyState[wsock] = "OPEN"
    /\ Len(history) + Len(CallsOf(data)) <= MaxHistory
    /\ OnMessage(wsock, data)
    /\ history' = history \o CallsOf(data)
    /\ UNCHANGED <<extensionSocket, readyState, now, exited>>
    /\ UNCHANGED extVars

\* ------------------------------------------------------------------------
\* The built-in status tool
\* ------------------------------------------------------------------------
\* Array.from(scriptRegistry.entries()).map(([name, info]) => ({ ... }))
StatusScripts ==
    [i \in 1..Len(scriptRegistry) |->
        [name |-> scriptRegistry[i].key,
         description |-> scriptRegistry[i].value.description,
         urlPattern |-> scriptRegistry[i].value.urlPattern]]

\* the object whose JSON text the handler of mcp_monkey_status returns
StatusResult ==
    [extensionConnected |-> (extensionSocket # NoSocket
                             /\ readyState[extensionSocket] = "OPEN"),
     registeredScripts |-> StatusScripts,
     wsPort |-> WS_PORT]

StatusEvent(result) == [ev |-> "status", result |-> result]

\* The agent calls mcp_monkey_status.
InvokeStatus ==
    /\ out' = <<StatusEvent(StatusResult)>>
    /\ UNCHANGED <<scriptRegistry, toolHandles, pendingRequests, extensionSocket,
                   readyState, timers, calls, now>>
    /\ UNCHANGED <<extVars, history, exited>>

\* ------------------------------------------------------------------------
\* The extension's background worker (background.js) and the popup
\* ------------------------------------------------------------------------
Created == 1..Len(wsReadyState)

\* ws && ws.readyState === WebSocket.OPEN
WsIsOpen == ws # NoSocket /\ wsReadyState[ws] = "OPEN"

ExtSend(msg) == [to |-> ws, msg |-> msg]

Min(a, b) == IF a <= b THEN a ELSE b

\* Mutant: the delay is not capped.
scheduleReconnectUncapped(ts) ==
    /\ reconnectTimers' = Append(ts, RECONNECT_BASE_MS * 2^reconnectAttempt)
    /\ reconnectAttempt' = reconnectAttempt + 1

\* scheduleReconnect(), the armed timers being ts
scheduleReconnect(ts) ==
    /\ reconnectTimers' =
           Append(ts, Min(RECONNECT_BASE_MS * 2^reconnectAttempt, RECONNECT_MAX_MS))
    /\ reconnectAttempt' = reconnectAttempt + 1

stopHeartbeat ==
    IF heartbeatTimer # NoTimer
    THEN /\ intervals' = intervals \ {heartbeatTimer}
         /\ heartbeatTimer' = NoTimer
    ELSE UNCHANGED <<intervals, heartbeatTimer>>

\* startHeartbeat(): stopHeartbeat(), then setInterval gives the timer id
startHeartbeat(id) ==
    /\ intervals' = (intervals \ {heartbeatTimer}) \cup {id}
    /\ heartbeatTimer' = id

\* connect() returns at once: `ws` is CONNECTING or OPEN
ConnectReturns(ts) ==
    /\ ws # NoSocket
    /\ wsReadyState[ws] \in {"CONNECTING", "OPEN"}
    /\ reconnectTimers' = ts
    /\ UNCHANGED <<ws, wsReadyState, reconnectAttempt>>

\* connect() creates a WebSocket and attaches its handlers
ConnectCreates(ts) ==
    /\ ~(ws # NoSocket /\ wsReadyState[ws] \in {"CONNECTING", "OPEN"})
    /\ Len(wsReadyState) < MaxExtSockets
    /\ wsReadyState' = Append(wsReadyState, "CONNECTING")
    /\ ws' = Len(wsReadyState) + 1
    /\ reconnectTimers' = ts
    /\ UNCHANGED reconnectAttempt

\* connect(): the WebSocket constructor throws
ConnectThrows(ts) ==
    /\ ~(ws # NoSocket /\ wsReadyState[ws] \in {"CONNECTING", "OPEN"})
    /\ reconnectAttempt < MaxAttempt
    /\ scheduleReconnect(ts)
    /\ UNCHANGED <<ws, wsReadyState>>

connect(ts) ==
    \/ ConnectReturns(ts)
    \/ ConnectCreates(ts)
    \/ ConnectThrows(ts)

\* The service worker is loaded: its last statement is connect().
Load ==
    /\ ~loaded
    /\ loaded' = TRUE
    /\ connect(reconnectTimers)
    /\ extOut' = <<>>
    /\ UNCHANGED <<heartbeatTimer, intervals, isConnected, storage, syncTasks,
                   popupMessages, popupOps, wire>>
    /\ UNCHANGED <<execTasks, serverVars>>

\* setTimeout(connect, delay): the i-th armed timer fires
ReconnectTimerFire(i) ==
    /\ i \in 1..Len(reconnectTimers)
    /\ connect(SubSeq(reconnectTimers, 1, i - 1)
               \o SubSeq(reconnectTimers, i + 1, Len(reconnectTimers)))
    /\ extOut' = <<>>
    /\ UNCHANGED <<loaded, heartbeatTimer, intervals, isConnected, storage, syncTasks,
                   popupMessages, popupOps, wire>>
    /\ UNCHANGED <<execTasks, serverVars>>

\* A call of syncAllScripts made by the onopen of socket conn.  It awaits
\* chrome.storage.local.get: stage "get" until the storage has been read,
\* "got" until the continuation runs with the scripts read.
SyncTask(conn, stage, scripts) == [conn |-> conn, stage |-> stage, scripts |-> scripts]

\* ws.onopen of socket s, up to the await inside syncAllScripts
WsOpen(s) ==
    /\ s \in Created
    /\ wsReadyState[s] = "CONNECTING"
    /\ wsReadyState' = [wsReadyState EXCEPT ![s] = "OPEN"]
    /\ isConnected' = TRUE
    /\ reconnectAttempt' = 0
    /\ startHeartbeat(s)
    /\ syncTasks' = syncTasks \cup {SyncTask(s, "get", <<>>)}
    /\ extOut' = <<>>
    /\ UNCHANGED <<loaded, ws, reconnectTimers, storage, popupMessages, popupOps, wire>>
    /\ UNCHANGED <<execTasks, serverVars>>

\* chrome.storage.local.get("scripts") reads the storage
SyncRead(t) ==
    /\ t \in syncTasks
    /\ t.stage = "get"
    /\ syncTasks' = (syncTasks \ {t}) \cup {SyncTask(t.conn, "got", storage)}
    /\ extOut' = <<>>
    /\ UNCHANGED <<loaded, ws, wsReadyState, heartbeatTimer, intervals, reconnectAttempt,
                   isConnected, reconnectTimers, storage, popupMessages, popupOps, wire>>
    /\ UNCHANGED <<execTasks, serverVars>>

\* scripts.map((s) => ({ name, description, urlPattern, code }))
SyncPayload(scripts) ==
    [i \in 1..Len(scripts) |->
        Script(scripts[i].name, scripts[i].description, scripts[i].urlPattern,
               scripts[i].code)]

\* syncAllScripts after the await: sends on the socket `ws` holds now
SyncSend(t) ==
    /\ t \in syncTasks
    /\ t.stage = "got"
    /\ syncTasks' = syncTasks \ {t}
    /\ IF WsIsOpen
       THEN /\ extOut' = <<ExtSend(ScriptsSyncMsg(TRUE, SyncPayload(t.scripts)))>>
            /\ wire' = [wire EXCEPT ![ws] =
                            Append(@, ScriptsSyncMsg(TRUE, SyncPayload(t.scripts)))]
       ELSE /\ extOut' = <<>>
            /\ UNCHANGED wire
    /\ UNCHANGED <<loaded, ws, wsReadyState, heartbeatTimer, intervals, reconnectAttempt,
                   isConnected, reconnectTimers, storage, popupMessages, popupOps>>
    /\ UNCHANGED <<execTasks, serverVars>>

\* Mutant: onerror schedules a reconnect as well.
WsClosingReconnects(s) ==
    /\ s \in Created
    /\ wsReadyState[s] = "OPEN"
    /\ wsReadyState' = [wsReadyState EXCEPT ![s] = "CLOSING"]
    /\ reconnectAttempt < MaxAttempt
    /\ scheduleReconnect(reconnectTimers)
    /\ extOut' = <<>>
    /\ UNCHANGED <<loaded, ws, heartbeatTimer, intervals, isConnected,
                   storage, syncTasks, popupMessages, popupOps, wire>>
    /\ UNCHANGED <<execTasks, serverVars>>

\* The socket starts to close (the peer's close frame, a network error):
\* readyState leaves OPEN before any handler runs; onerror only logs.
WsClosing(s) ==
    /\ s \in Created
    /\ wsReadyState[s] = "OPEN"
    /\ wsReadyState' = [wsReadyState EXCEPT ![s] = "CLOSING"]
    /\ extOut' = <<>>
    /\ UNCHANGED <<loaded, ws, heartbeatTimer, intervals, reconnectAttempt, isConnected,
                   reconnectTimers, storage, syncTasks, popupMessages, popupOps, wire>>
    /\ UNCHANGED <<execTasks, serverVars>>

\* Mutant: onclose leaves the heartbeat running.
WsCloseKeepsHeartbeat(s) ==
    /\ s \in Created
    /\ wsReadyState[s] # "CLOSED"
    /\ wsReadyState' = [wsReadyState EXCEPT ![s] = "CLOSED"]
    /\ isConnected' = FALSE
    /\ UNCHANGED <<intervals, heartbeatTimer>>
    /\ scheduleReconnect(reconnectTimers)
    /\ extOut' = <<>>
    /\ UNCHANGED <<loaded, ws, storage, syncTasks, popupMessages, popupOps, wire>>
    /\ UNCHANGED <<execTasks, serverVars>>

\* Mutant: onclose does not schedule a reconnect.
WsCloseNoReconnect(s) ==
    /\ s \in Created
    /\ wsReadyState[s] # "CLOSED"
    /\ wsReadyState' = [wsReadyState EXCEPT ![s] = "CLOSED"]
    /\ isConnected' = FALSE
    /\ stopHeartbeat
    /\ extOut' = <<>>
    /\ UNCHANGED <<loaded, ws, storage, syncTasks, popupMessages, popupOps, wire,
                   reconnectTimers, reconnectAttempt>>
    /\ UNCHANGED <<execTasks, serverVars>>

\* ws.onclose of socket s
WsClose(s) ==
    /\ s \in Created
    /\ wsReadyState[s] # "CLOSED"
    /\ wsReadyState' = [wsReadyState EXCEPT ![s] = "CLOSED"]
    /\ isConnected' = FALSE
    /\ stopHeartbeat
    /\ scheduleReconnect(reconnectTimers)
    /\ extOut' = <<>>
    /\ UNCHANGED <<loaded, ws, storage, syncTasks, popupMessages, popupOps, wire>>
    /\ UNCHANGED <<execTasks, serverVars>>

\* the setInterval callback of startHeartbeat
HeartbeatTick(id) ==
    /\ id \in intervals
    /\ extOut' = IF WsIsOpen THEN <<ExtSend(PongMsg)>> ELSE <<>>
    /\ UNCHANGED <<loaded, ws, wsReadyState, heartbeatTimer, intervals, reconnectAttempt,
                   isConnected, reconnectTimers, storage, syncTasks, popupMessages,
                   popupOps, wire>>
    /\ UNCHANGED <<execTasks, serverVars>>

\* chrome.runtime.onInstalled with reason "install": the default script
DefaultScript == Script("runpod-status", "Check RunPod", "*://www.runpod.io/*", "return 1")

OnInstalled ==
    /\ popupOps = 0
    /\ storage = <<>>
    /\ storage' = <<DefaultScript>>
    /\ popupOps' = 1
    /\ extOut' = <<>>
    /\ UNCHANGED <<loaded, ws, wsReadyState, heartbeatTimer, intervals, reconnectAttempt,
                   isConnected, reconnectTimers, syncTasks, popupMessages, wire>>
    /\ UNCHANGED <<execTasks, serverVars>>

\* String.prototype.trim, for the space character
RECURSIVE TrimStart(_)
TrimStart(str) ==
    IF str # "" /\ CharAt(str, 1) = " " THEN TrimStart(SubSeq(str, 2, Len(str))) ELSE str
RECURSIVE TrimEnd(_)
TrimEnd(str) ==
    IF str # "" /\ CharAt(str, Len(str)) = " "
    THEN TrimEnd(SubSeq(str, 1, Len(str) - 1))
    ELSE str
Trim(str) == TrimEnd(TrimStart(str))

\* /^[a-zA-Z0-9_-]+$/.test(name)
ValidName(name) ==
    /\ name # ""
    /\ \A i \in 1..Len(name) : Occurs(CharAt(name, i), SafeChars)

\* scripts.findIndex((s) => s.name === name), 0 for -1
FindIndex(scripts, name) ==
    IF \E i \in 1..Len(scripts) : scripts[i].name = name
    THEN CHOOSE i \in 1..Len(scripts) :
             /\ scripts[i].name = name
             /\ \A j \in 1..(i - 1) : scripts[j].name # name
    ELSE 0

\* popup.js handleSaveScript with the form's four fields
handleSaveScript(form) ==
    LET name == Trim(form.name)
        description == Trim(form.description)
        urlPattern == Trim(form.urlPattern)
        code == Trim(form.code)
        scriptData == Script(name, description, urlPattern, code)
        existingIndex == FindIndex(storage, name)
    IN /\ popupOps < MaxPopupOps
       /\ popupOps' = popupOps + 1
       /\ IF name = "" \/ description = "" \/ urlPattern = "" \/ code = ""
             \/ ~ValidName(name)
          THEN UNCHANGED <<storage, popupMessages>>
          ELSE /\ storage' = IF existingIndex > 0
                             THEN [storage EXCEPT ![existingIndex] = scriptData]
                             ELSE Append(storage, scriptData)
               /\ popupMessages' = Append(popupMessages, RegisterScriptMsg(scriptData))
       /\ extOut' = <<>>
       /\ UNCHANGED <<loaded, ws, wsReadyState, heartbeatTimer, intervals, reconnectAttempt,
                      isConnected, reconnectTimers, syncTasks, wire>>
       /\ UNCHANGED <<execTasks, serverVars>>

\* popup.js deleteScript(index), index counted from 0
deleteScript(index) ==
    /\ popupOps < MaxPopupOps
    /\ popupOps' = popupOps + 1
    /\ IF index < 0 \/ index >= Len(storage)
       THEN UNCHANGED <<storage, popupMessages>>
       ELSE /\ storage' = SubSeq(storage, 1, index) \o SubSeq(storage, index + 2, Len(storage))
            /\ popupMessages' = Append(popupMessages,
                                       UnregisterScriptMsg(storage[index + 1].name))
    /\ extOut' = <<>>
    /\ UNCHANGED <<loaded, ws, wsReadyState, heartbeatTimer, intervals, reconnectAttempt,
                   isConnected, reconnectTimers, syncTasks, wire>>
    /\ UNCHANGED <<execTasks, serverVars>>

\* chrome.runtime.onMessage of the worker: the popup's oldest message
RuntimeOnMessage ==
    /\ popupMessages # <<>>
    /\ popupMessages' = Tail(popupMessages)
    /\ IF WsIsOpen
       THEN /\ extOut' = <<ExtSend(Head(popupMessages))>>
            /\ wire' = [wire EXCEPT ![ws] = Append(@, Head(popupMessages))]
       ELSE /\ extOut' = <<>>
            /\ UNCHANGED wire
    /\ UNCHANGED <<loaded, ws, wsReadyState, heartbeatTimer, intervals, reconnectAttempt,
                   isConnected, reconnectTimers, storage, syncTasks, popupOps>>
    /\ UNCHANGED <<execTasks, serverVars>>

\* sendResult(requestId, result, error): on the socket `ws` holds now
sendResult(requestId, result, error) ==
    extOut' = IF WsIsOpen
              THEN <<ExtSend(ExecutionResultMsg(requestId, result,
                                                IF Truthy(error) THEN error ELSE Undefined))>>
              ELSE <<>>

\* How a call of handleExecuteScript ends.
NoTabOutcome == [kind |-> "no tab", value |-> JSNull, error |-> Undefined]
ScriptErrorOutcome(error) == [kind |-> "script error", value |-> JSNull, error |-> Str(error)]
ValueOutcome(value) == [kind |-> "value", value |-> value, error |-> Undefined]
ThrownOutcome(message) == [kind |-> "thrown", value |-> JSNull, error |-> Str(message)]

ExecOutcomes ==
    {NoTabOutcome, ScriptErrorOutcome("boom"), ValueOutcome(JSString("ok")),
     ValueOutcome(JSNull), ThrownOutcome("no access")}

\* A call of handleExecuteScript: conn is the socket whose onmessage made it.
ExecTask(conn, requestId, urlPattern, done) ==
    [conn |-> conn, requestId |-> requestId, urlPattern |-> urlPattern, done |-> done]

\* handleExecuteScript after its awaits (findMatchingTab,
\* chrome.scripting.executeScript), ending as outcome says
ExecFinish(t, outcome) ==
    /\ t \in execTasks
    /\ ~t.done
    /\ execTasks' = (execTasks \ {t})
                    \cup {ExecTask(t.conn, t.requestId, t.urlPattern, TRUE)}
    /\ CASE outcome.kind = "no tab" ->
               sendResult(t.requestId, JSNull,
                          Str("No open tab matches the URL pattern: " \o t.urlPattern
                              \o ". Please open the target page first."))
         [] outcome.kind = "script error" -> sendResult(t.requestId, JSNull, outcome.error)
         [] outcome.kind = "value" ->
               sendResult(t.requestId,
                          IF outcome.value = JSNull
                          THEN JSString("Script executed (no return value)")
                          ELSE outcome.value,
                          Undefined)
         [] outcome.kind = "thrown" ->
               sendResult(t.requestId, JSNull, Str("Execution failed: " \o outcome.error.s))
    /\ UNCHANGED <<loaded, ws, wsReadyState, heartbeatTimer, intervals, reconnectAttempt,
                   isConnected, reconnectTimers, storage, syncTasks, popupMessages,
                   popupOps, wire>>
    /\ UNCHANGED serverVars

\* ws.onmessage of socket s, up to the first await of handleExecuteScript
WsOnMessage(s, data) ==
    /\ s \in Created
    /\ wsReadyState[s] = "OPEN"
    /\ CASE data = InvalidJSON -> extOut' = <<>> /\ UNCHANGED execTasks
         \* `null`: msg.type throws; the rejection is reported and nothing else
         [] data = JSNull -> extOut' = <<>> /\ UNCHANGED execTasks
         [] data.type = "execute_script" ->
               /\ Cardinality(execTasks) < MaxExecs
               /\ execTasks' = execTasks
                                \cup {ExecTask(s, data.requestId, data.urlPattern, FALSE)}
               /\ extOut' = <<>>
         [] data.type = "ping" ->
               /\ extOut' = IF WsIsOpen THEN <<ExtSend(PongMsg)>> ELSE <<>>
               /\ UNCHANGED execTasks
         [] OTHER -> extOut' = <<>> /\ UNCHANGED execTasks
    /\ UNCHANGED <<loaded, ws, wsReadyState, heartbeatTimer, intervals, reconnectAttempt,
                   isConnected, reconnectTimers, storage, syncTasks, popupMessages,
                   popupOps, wire>>
    /\ UNCHANGED serverVars

\* What the server may send to the extension.
ExtInbound ==
    {InvalidJSON, JSNull, [type |-> "unknown_type"], [type |-> "ping"],
     [type |-> "script_registered", name |-> "a"],
     [type |-> "script_unregistered", name |-> "a"],
     [type |-> "execute_script", requestId |-> "req_0_1", scriptName |-> "a",
      code |-> "c1", urlPattern |-> "u1", args |-> ""]}

\* What the user may type into the popup's form.
FormInputs ==
    {Script("a", "d1", "u1", "c1"),
     Script("a", "d2", "u1", "c1"),
     Script(" b ", "d1", "u1", "c1"),
     Script("a b", "d1", "u1", "c1"),
     Script("a", "  ", "u1", "c1")}
DeleteIndexes == 0..1

ExtInit ==
    /\ loaded = FALSE
    /\ ws = NoSocket
    /\ wsReadyState = <<>>
    /\ heartbeatTimer = NoTimer
    /\ intervals = {}
    /\ reconnectAttempt = 0
    /\ isConnected = FALSE
    /\ reconnectTimers = <<>>
    /\ storage = <<>>
    /\ syncTasks = {}
    /\ popupMessages = <<>>
    /\ popupOps = 0
    /\ wire = [s \in 1..MaxExtSockets |-> <<>>]
    /\ extOut = <<>>
    /\ execTasks = {}

ExtNext ==
    \/ Load
    \/ \E i \in 1..MaxExtSockets : ReconnectTimerFire(i)
    \/ \E s \in 1..MaxExtSockets : WsOpen(s)
    \/ \E t \in syncTasks : SyncRead(t)
    \/ \E t \in syncTasks : SyncSend(t)
    \/ \E s \in 1..MaxExtSockets : WsClosing(s)
    \/ \E s \in 1..MaxExtSockets : WsClose(s)
    \/ \E id \in 1..MaxExtSockets : HeartbeatTick(id)
    \/ OnInstalled
    \/ \E form \in FormInputs : handleSaveScript(form)
    \/ \E index \in DeleteIndexes : deleteScript(index)
    \/ RuntimeOnMessage
    \/ \E s \in 1..MaxExtSockets : \E data \in ExtInbound : WsOnMessage(s, data)
    \/ \E t \in execTasks : \E outcome \in ExecOutcomes : ExecFinish(t, outcome)

\* ------------------------------------------------------------------------
\* The specifications
\* ------------------------------------------------------------------------
vars == <<serverVars, extVars>>

ServerInit ==
    /\ scriptRegistry = <<>>
    /\ toolHandles = EmptyMap
    /\ pendingRequests = EmptyMap
    /\ extensionSocket = NoSocket
    /\ readyState = <<>>
    /\ timers = {}
    /\ calls = <<>>
    /\ now = 0
    /\ out = <<>>
    /\ history = <<>>
    /\ exited = FALSE

Init == ServerInit /\ ExtInit

ServerNext ==
    \/ Connection
    \/ \E wsock \in Sockets : SocketClose(wsock)
    \/ \E wsock \in Sockets : SocketError(wsock)
    \/ \E wsock \in Sockets : \E data \in Inbound : HandleMessage(wsock, data)
    \/ \E toolName \in DOMAIN toolHandles : \E args \in ArgValues :
         \E rnd \in 1..RandomSuffixes : Invoke(toolName, args, rnd)
    \/ \E c \in 1..MaxCalls : TimerFire(c)
    \/ Tick

Next == ServerNext

Spec == Init /\ [][Next]_vars

\* The event loop: time passes, and the callback of an expired timer runs.
Fairness ==
    /\ WF_vars(Tick)
    /\ \A c \in 1..MaxCalls : WF_vars(TimerFire(c))

FairSpec == Init /\ [][Next]_vars /\ Fairness

ExtSpec == Init /\ [][ExtNext]_vars

\* the close event of `ws` is pending
ClosePending == ws # NoSocket /\ wsReadyState[ws] = "CLOSING"

\* The browser delivers the close event of a closing socket, and a timer
\* that is armed fires.
ExtFairness ==
    /\ \A s \in 1..MaxExtSockets : WF_vars(ClosePending /\ ws = s /\ WsClose(s))
    /\ \A i \in 1..MaxExtSockets : WF_vars(ReconnectTimerFire(i))

ExtFairSpec == Init /\ [][ExtNext]_vars /\ ExtFairness

\* The server's registry: connections, the messages that change it and the
\* status tool that reports it.
RegistryNext ==
    \/ Connection
    \/ \E wsock \in Sockets : SocketClose(wsock)
    \/ \E wsock \in Sockets : SocketError(wsock)
    \/ InvokeStatus
    \/ \E wsock \in Sockets : \E data \in RegistryInbound : HandleMessageLogged(wsock, data)

RegistrySpec == Init /\ [][RegistryNext]_vars

\* The two ends of the link, one at a time and each with any peer at its
\* other end: a behaviour is one of the server, which also receives `null`
\* and runs until its process ends, or one of the extension.
LinkNext ==
    \/ ExtInit /\ ~exited /\ ServerNext
    \/ ExtInit /\ ~exited /\ \E wsock \in Sockets : \E exits \in BOOLEAN : HandleNull(wsock, exits)
    \/ ServerInit /\ ExtNext

LinkSpec == Init /\ [][LinkNext]_vars

\* The registry and the invocations of the tools it exposes.
DispatchNext ==
    \/ Connection
    \/ \E wsock \in Sockets : SocketClose(wsock)
    \/ \E wsock \in Sockets : \E data \in RegistryInbound : HandleMessageLogged(wsock, data)
    \/ \E toolName \in DOMAIN toolHandles : \E args \in ArgValues :
         \E rnd \in 1..RandomSuffixes : Invoke(toolName, args, rnd)

DispatchSpec == Init /\ [][DispatchNext]_vars

\* The server's handler of the socket that the extension's socket s is the
\* other end of: it handles the oldest message s carried.  The handler is
\* attached to that socket and reads neither extensionSocket nor readyState.
\* What s carried is handled before the extension sees s closed, or never.
Deliver(s) ==
    /\ s \in Created
    /\ wsReadyState[s] # "CLOSED"
    /\ wire[s] # <<>>
    /\ OnMessage(s, Head(wire[s]))
    /\ wire' = [wire EXCEPT ![s] = Tail(@)]
    /\ UNCHANGED <<extensionSocket, readyState, now, history, exited>>
    /\ UNCHANGED <<loaded, ws, wsReadyState, heartbeatTimer, intervals, reconnectAttempt,
                   isConnected, reconnectTimers, storage, syncTasks, popupMessages,
                   popupOps, extOut, execTasks>>

\* The popup, the worker's connection and the server's registry, end to end.
SaveNext ==
    \/ Load
    \/ \E i \in 1..MaxExtSockets : ReconnectTimerFire(i)
    \/ \E s \in 1..MaxExtSockets : WsOpen(s)
    \/ \E t \in syncTasks : SyncRead(t)
    \/ \E t \in syncTasks : SyncSend(t)
    \/ \E s \in 1..MaxExtSockets : WsClosing(s)
    \/ \E s \in 1..MaxExtSockets : WsClose(s)
    \/ \E form \in FormInputs : handleSaveScript(form)
    \/ \E index \in DeleteIndexes : deleteScript(index)
    \/ RuntimeOnMessage
    \/ \E s \in 1..MaxExtSockets : Deliver(s)

SaveSpec == Init /\ [][SaveNext]_vars

\* ------------------------------------------------------------------------
\* Properties of the server
\* ------------------------------------------------------------------------
\* invocation c was dispatched (it was given a request id)
Dispatched(c) == c \in 1..Len(calls) /\ calls[c].requestId # NoRequest
\* invocation c waits for its result
InFlight(c) == Dispatched(c) /\ ~calls[c].settled
\* this step starts an invocation
Started == Len(calls') = Len(calls) + 1
\* this step settles invocation c
Settles(c) == c \in 1..Len(calls) /\ ~calls[c].settled /\ calls'[c].settled
\* the requests whose entry holds the resolve callback of invocation c
EntriesOf(table, c) == {r \in DOMAIN table : table[r].resolve = c}
ExecuteSends(o) == {i \in 1..Len(o) : o[i].ev = "send" /\ o[i].msg.type = "execute_script"}
\* the execution_result messages that carry requestId
ResultsFor(requestId) ==
    {ExecutionResultMsg(requestId, v, e) : v \in ResultValues, e \in ErrorValues}
SomeSocketOpen == \E wsock \in Accepted : readyState[wsock] = "OPEN"

\* C1: an invocation made while no socket is held, or the held socket is not
\* OPEN, is resolved in that step with the not-connected error; the step adds
\* no entry to pendingRequests, arms no timer and sends no message.
C1_NotConnectedAtOnce ==
    [][(Started /\ ~Connected) =>
          /\ calls'[Len(calls')].settled
          /\ calls'[Len(calls')].result = NotConnectedResult
          /\ calls'[Len(calls')].requestId = NoRequest
          /\ pendingRequests' = pendingRequests
          /\ timers' = timers
          /\ out' = <<>>]_vars

\* an invocation returned not-connected while a socket was held but not OPEN
C1_Witness ==
    /\ Len(calls) > 0
    /\ calls[Len(calls)].result = NotConnectedResult
    /\ extensionSocket # NoSocket
    /\ readyState[extensionSocket] = "CLOSING"
    /\ out = <<>>

\* C2 (as claimed): when an execution_result with a value and no error is
\* handled before the deadline of an invocation that carries its requestId,
\* that invocation returns the success result with that value, and the
\* requestId is no longer in pendingRequests.
C2_ResultBeforeDeadlineReturnsValue ==
    [][\A c \in 1..Len(calls) :
          (InFlight(c) /\ now < calls[c].deadline)
          => \A wsock \in Sockets : \A data \in ResultsFor(calls[c].requestId) :
                (~Truthy(data.error) /\ HandleMessage(wsock, data))
                => /\ calls'[c].settled
                   /\ calls'[c].result = SuccessResult(data.result)
                   /\ data.requestId \notin DOMAIN pendingRequests']_vars

\* C3 (as claimed): an invocation for which no execution_result was handled
\* before its deadline returns the timed-out error.
C3_NoResultByDeadlineTimesOut ==
    [][\A c \in 1..Len(calls) :
          (InFlight(c) /\ now >= calls[c].deadline /\ Settles(c))
          => calls'[c].result = TimedOutResult]_vars

\* C3 (amended): an invocation for which no execution_result is handled before
\* its deadline timer fires returns the timed-out error in the step in which
\* the timer fires, never before the deadline; that step removes the entry of
\* its requestId; an execution_result for that requestId handled afterwards
\* changes no invocation, no entry of pendingRequests and no timer.
C3_TimerFiresTimesOut ==
    [][/\ \A c \in 1..Len(calls') :
            (calls'[c].requestId # NoRequest /\ ~calls'[c].settled) => c \in timers'
       /\ \A c \in 1..Len(calls) :
            TimerFire(c)
            => /\ Settles(c)
               /\ calls'[c].result = TimedOutResult
               /\ calls[c].requestId \notin DOMAIN pendingRequests'
       /\ \A c \in 1..Len(calls) :
            (Settles(c) /\ calls'[c].result = TimedOutResult)
            => (c \in timers /\ c \notin timers' /\ now >= calls[c].deadline)
       /\ \A c \in 1..Len(calls) :
            (Dispatched(c) /\ calls[c].settled /\ calls[c].result = TimedOutResult)
            => \A wsock \in Sockets : \A data \in ResultsFor(calls[c].requestId) :
                  HandleMessage(wsock, data)
                  => UNCHANGED <<calls, pendingRequests, timers>>]_vars

\* an invocation has timed out while another is still in flight, and a
\* socket is open on which a late result can arrive
C3_Witness ==
    /\ Len(calls) = 2
    /\ SomeSocketOpen
    /\ calls[1].settled /\ calls[1].result = TimedOutResult
    /\ InFlight(2)
    /\ calls[2].requestId \in DOMAIN pendingRequests
    /\ 2 \in timers
    /\ now >= calls[1].deadline

C5_BoundedWait ==
    /\ \A c \in 1..MaxCalls :
          (Len(calls) >= c) ~> (Len(calls) >= c /\ calls[c].settled)
    /\ <>[](DOMAIN pendingRequests = {})

\* an invocation returned by timeout after its socket was closed
C5_Witness ==
    /\ Len(calls) > 0
    /\ Dispatched(1)
    /\ calls[1].settled /\ calls[1].result = TimedOutResult
    /\ ~SomeSocketOpen
    /\ pendingRequests = EmptyMap

\* C6 (as claimed): an entry of pendingRequests is never overwritten: an
\* invocation whose generated requestId is already in the table leaves the
\* entry, its timer and its caller as they were.
C6_LiveEntryNeverOverwritten ==
    [][\A r \in DOMAIN pendingRequests :
          r \in DOMAIN pendingRequests' => pendingRequests'[r] = pendingRequests[r]]_vars

\* C7: the close and error events of a socket leave pendingRequests, the
\* timers and the invocations unchanged; the deadline of an invocation never
\* changes; and an invocation for whose requestId no execution_result is
\* handled ends only by its timer, with the timed-out error, not before its
\* deadline.
C7_DisconnectLeavesRequests ==
    [][/\ (\E wsock \in Accepted : readyState'[wsock] # readyState[wsock])
          => UNCHANGED <<pendingRequests, timers, calls>>
       /\ \A c \in 1..Len(calls) :
            /\ calls'[c].deadline = calls[c].deadline
            /\ calls'[c].requestId = calls[c].requestId
            /\ Settles(c)
               => \/ /\ calls'[c].result = TimedOutResult
                     /\ now >= calls[c].deadline
                     /\ c \in timers
                  \/ \E wsock \in Sockets : \E data \in ResultsFor(calls[c].requestId) :
                        HandleMessage(wsock, data)]_vars

\* every socket is closed while an invocation is in flight: its entry and its
\* timer are still there, and its deadline has not come
C7_Witness ==
    /\ InFlight(1)
    /\ readyState # <<>>
    /\ \A wsock \in Accepted : readyState[wsock] = "CLOSED"
    /\ calls[1].requestId \in DOMAIN pendingRequests
    /\ 1 \in timers
    /\ now < calls[1].deadline

\* C8 (as claimed): once a newer socket has been accepted, a message handled
\* on an earlier socket changes neither the registry nor the tools nor the
\* pending requests, and execute_script goes to the newest socket only.
C8_SupersededSocketIgnored ==
    [][/\ \A wsock \in Accepted :
            wsock < Len(readyState)
            => \A data \in Inbound :
                  HandleMessage(wsock, data)
                  => UNCHANGED <<scriptRegistry, toolHandles, pendingRequests, timers, calls>>
       /\ \A i \in ExecuteSends(out') : out'[i].to = Len(readyState')]_vars

SyncCompletes(s) ==
    \E t \in syncTasks : t.conn = s /\ t.stage = "got" /\ t \notin syncTasks'
\* the scripts_sync messages this step sent on socket s
SyncsSent(s) ==
    {i \in 1..Len(extOut') : extOut'[i].to = s /\ extOut'[i].msg.type = "scripts_sync"}

\* C10: the onopen of a socket sends exactly one scripts_sync on that socket,
\* carrying the scripts in storage at that moment: the step that completes
\* the syncAllScripts call of socket s sends one scripts_sync on s whose
\* scripts are the storage's, and no other step sends a scripts_sync on s.
C10_OneSyncPerOpen ==
    [][\A s \in Created :
          IF SyncCompletes(s)
          THEN /\ Cardinality(SyncsSent(s)) = 1
               /\ \A i \in SyncsSent(s) : extOut'[i].msg.scripts = SyncPayload(storage)
          ELSE SyncsSent(s) = {}]_vars

\* ------------------------------------------------------------------------
\* Properties of the registry
\* ------------------------------------------------------------------------
ScriptNames(scripts) == {scripts[i].name : i \in 1..Len(scripts)}

\* C11 (as claimed): after a scripts_sync has been handled, the registry
\* holds exactly the names the sync carried and the tools are exactly the
\* tools of those names; after an empty sync the registry is empty.
C11_SyncReplacesRegistry ==
    [][\A wsock \in Accepted : \A data \in RegistryInbound :
          (data.type = "scripts_sync" /\ data.isArray /\ HandleMessageLogged(wsock, data))
          => /\ Keys(scriptRegistry') = ScriptNames(data.scripts)
             /\ DOMAIN toolHandles' = {ToolName(n) : n \in ScriptNames(data.scripts)}]_vars

\* C12 (as claimed): the tool names held in toolHandles are the public
\* identifiers of the names in scriptRegistry, in every reachable state.
C12_ToolsMatchRegistry ==
    DOMAIN toolHandles = {ToolName(n) : n \in Keys(scriptRegistry)}

\* The net effect of a sequence h of calls, read off the sequence itself.
\* the index of the last call on name, 0 when there is none
LastIndex(h, name) ==
    IF \E i \in 1..Len(h) : h[i].script.name = name
    THEN CHOOSE i \in 1..Len(h) :
             /\ h[i].script.name = name
             /\ \A j \in (i + 1)..Len(h) : h[j].script.name # name
    ELSE 0
\* the names whose last call is a register
Present(h) ==
    {n \in {h[i].script.name : i \in 1..Len(h)} : h[LastIndex(h, n)].call = "register"}
\* the index of the register that inserted name: the first one that no
\* unregister of name follows
InsertedAt(h, name) ==
    CHOOSE i \in 1..Len(h) :
        /\ h[i].script.name = name /\ h[i].call = "register"
        /\ \A j \in i..Len(h) : h[j].script.name = name => h[j].call = "register"
        /\ \A k \in 1..(i - 1) :
              (h[k].script.name = name /\ h[k].call = "register")
              => \E j \in k..i : h[j].script.name = name /\ h[j].call = "unregister"
NetEffect(h) ==
    [k \in 1..Cardinality(Present(h)) |->
        LET n == CHOOSE n \in Present(h) :
                     Cardinality({m \in Present(h) : InsertedAt(h, m) <= InsertedAt(h, n)}) = k
            latest == h[LastIndex(h, n)].script
        IN [key |-> n,
            value |-> [description |-> latest.description,
                       urlPattern |-> latest.urlPattern,
                       code |-> latest.code]]]
\* the name in the registry most recently registered among those of tool name id
LastRegistered(h, id) ==
    LET regs == {i \in 1..Len(h) : /\ h[i].call = "register"
                                   /\ h[i].script.name \in Present(h)
                                   /\ ToolName(h[i].script.name) = id}
    IN h[CHOOSE i \in regs : \A j \in regs : j <= i].script.name

\* C13 (as claimed): after any sequence of calls the registry is the net
\* effect of the sequence (the names whose last call is a register, once each,
\* with the fields of the latest register, in insertion order), and every
\* public identifier of a name in the registry has a tool, which dispatches to
\* the most recently registered of the names with that identifier.
C13_NetEffect ==
    /\ scriptRegistry = NetEffect(history)
    /\ \A id \in {ToolName(n) : n \in Present(history)} :
          /\ id \in DOMAIN toolHandles
          /\ toolHandles[id].name = LastRegistered(history, id)

\* C14 (as claimed): unregister_script for a name that is not in the registry
\* leaves scriptRegistry and toolHandles as they were.
C14_UnregisterAbsentIsNoOp ==
    [][\A wsock \in Accepted : \A n \in RegistryNames :
          (n \notin Keys(scriptRegistry)
             /\ HandleMessageLogged(wsock, UnregisterScriptMsg(n)))
          => UNCHANGED <<scriptRegistry, toolHandles>>]_vars

\* ------------------------------------------------------------------------
\* Properties of the extension's connection
\* ------------------------------------------------------------------------
\* min(1000 * 2^k, 30000)
BackoffDelay(k) == IF 1000 * 2^k <= 30000 THEN 1000 * 2^k ELSE 30000
\* `ws` is CONNECTING or OPEN
WsAlive == ws # NoSocket /\ wsReadyState[ws] \in {"CONNECTING", "OPEN"}
\* this step is the onopen of a socket
OpenStep == \E s \in Created : WsOpen(s)
\* this step is the onclose of a socket
CloseStep == \E s \in Created : WsClose(s)
\* this step is a connect() whose WebSocket constructor threw
ThrowStep ==
    /\ Load \/ \E i \in 1..Len(reconnectTimers) : ReconnectTimerFire(i)
    /\ ~WsAlive
    /\ wsReadyState' = wsReadyState
\* this step called scheduleReconnect
ScheduleStep == CloseStep \/ ThrowStep
Last(seq) == seq[Len(seq)]

\* C15: reconnectAttempt is the number k of scheduleReconnect calls since the
\* last open (0 after an open, one more after each call, unchanged by every
\* other step); the k-th call arms a timer of min(1000 * 2^k, 30000) ms, which
\* is within [1000, 30000] and not less than the delay of the call before;
\* and the close of a socket that had opened arms a timer of 1000 ms.
C15_Backoff ==
    [][/\ OpenStep => reconnectAttempt' = 0
       /\ ScheduleStep
          => /\ reconnectAttempt' = reconnectAttempt + 1
             /\ reconnectTimers' # <<>>
             /\ Last(reconnectTimers') = BackoffDelay(reconnectAttempt)
             /\ Last(reconnectTimers') >= 1000
             /\ Last(reconnectTimers') <= 30000
             /\ reconnectAttempt > 0
                => Last(reconnectTimers') >= BackoffDelay(reconnectAttempt - 1)
       /\ ~(OpenStep \/ ScheduleStep) => reconnectAttempt' = reconnectAttempt
       /\ \A s \in Created :
             (wsReadyState[s] \in {"OPEN", "CLOSING"} /\ WsClose(s))
             => Last(reconnectTimers') = 1000]_vars

\* the sixth failure in a row has armed the capped delay
C15_Witness ==
    /\ reconnectAttempt = 6
    /\ reconnectTimers = <<30000>>
    /\ Len(wsReadyState) > 0

\* the model can make no further connection attempt: its bounds are used up
ExtAtBound == Len(wsReadyState) = MaxExtSockets /\ reconnectAttempt >= MaxAttempt

\* C16: once the worker is loaded, `ws` is CONNECTING or OPEN, or its close
\* event is pending, or a reconnect timer is armed; the load makes a
\* connection attempt; every close and every constructor failure arms a
\* reconnect timer; a reconnect timer that fires makes a connection attempt
\* (a socket is created, or the constructor fails and a timer is armed
\* again); a pending close event is delivered, and an armed timer fires, as
\* long as the model's bounds allow another attempt.
C16_ReconnectNeverStalls ==
    /\ [](loaded => (WsAlive \/ ClosePending \/ reconnectTimers # <<>>))
    /\ [][Load => (Len(wsReadyState') = 1 \/ reconnectAttempt' = 1)]_vars
    /\ [][ScheduleStep => reconnectTimers' # <<>>]_vars
    /\ [][\A i \in 1..Len(reconnectTimers) :
             ReconnectTimerFire(i)
             => /\ ~WsAlive
                /\ \/ Len(wsReadyState') = Len(wsReadyState) + 1 /\ WsAlive'
                   \/ ThrowStep /\ reconnectTimers' # <<>>]_vars
    /\ []<>(~ClosePending)
    /\ []<>(reconnectTimers = <<>> \/ ExtAtBound)

\* the first socket has terminated and the reconnect timer has made the
\* second attempt
C16_Witness ==
    /\ wsReadyState = <<"CLOSED", "CONNECTING">>
    /\ ws = 2
    /\ reconnectTimers = <<>>
    /\ reconnectAttempt = 1

\* C17: the heartbeat timer is held exactly while isConnected, which is from
\* the open of `ws` until its close event; the armed interval timers are the
\* held one and no other; a tick can run whatever executions are in flight,
\* sends one pong if `ws` is OPEN and nothing otherwise, and changes nothing
\* else.
C17_KeepaliveWhileConnected ==
    /\ []((heartbeatTimer # NoTimer) <=> isConnected)
    /\ [](isConnected <=> (ws # NoSocket /\ wsReadyState[ws] \in {"OPEN", "CLOSING"}))
    /\ [](intervals = IF heartbeatTimer = NoTimer THEN {} ELSE {heartbeatTimer})
    /\ [](\A id \in intervals : ENABLED HeartbeatTick(id))
    /\ [][\A id \in intervals :
             HeartbeatTick(id)
             => /\ extOut' = IF ws # NoSocket /\ wsReadyState[ws] = "OPEN"
                             THEN <<[to |-> ws, msg |-> [type |-> "pong"]]>>
                             ELSE <<>>
                /\ UNCHANGED <<ws, wsReadyState, heartbeatTimer, intervals, isConnected,
                               reconnectTimers, reconnectAttempt, execTasks, syncTasks>>]_vars

\* the heartbeat of the second connection has just sent a pong while an
\* execution is in flight
C17_Witness ==
    /\ wsReadyState = <<"CLOSED", "OPEN">>
    /\ isConnected
    /\ heartbeatTimer = 2
    /\ intervals = {2}
    /\ \E t \in execTasks : ~t.done
    /\ extOut = <<[to |-> 2, msg |-> [type |-> "pong"]]>>

\* C18: handling the keepalive the extension emits (type "pong") leaves
\* scriptRegistry, toolHandles, pendingRequests and the connection state as
\* they were, completes no invocation, and the server answers it on the same
\* socket with a keepalive acknowledgement.
C18_KeepaliveAcknowledged ==
    [][\A wsock \in Sockets :
          HandleMessage(wsock, PongMsg)
          => /\ UNCHANGED <<scriptRegistry, toolHandles, pendingRequests, timers, calls,
                            extensionSocket, readyState>>
             /\ \E i \in 1..Len(out') : out'[i].ev = "send" /\ out'[i].to = wsock]_vars

\* text that is not JSON, and a type no case names; `null`, which has no
\* type to read, is handled by HandleNull and by its own case of WsOnMessage
Unrecognized == {InvalidJSON, [type |-> "unknown_type"]}

\* C19: handling an inbound message that is not valid JSON or whose type is
\* not recognized, on the server or in the extension, leaves the registry,
\* toolHandles, pendingRequests and the connection state unchanged, emits
\* nothing, completes no invocation and leaves the socket open, so that the
\* messages that follow are still handled.
C19_UnrecognizedDropped ==
    /\ [][\A wsock \in Sockets :
             (\/ \E data \in Unrecognized : HandleMessage(wsock, data)
              \/ \E exits \in BOOLEAN : HandleNull(wsock, exits))
             => /\ UNCHANGED <<scriptRegistry, toolHandles, pendingRequests, timers, calls,
                               extensionSocket, readyState, exited>>
                /\ out' = <<>>
                /\ readyState'[wsock] = "OPEN"]_vars
    /\ [][\A s \in 1..MaxExtSockets :
             (\E data \in Unrecognized \cup {JSNull} : WsOnMessage(s, data))
             => /\ UNCHANGED <<ws, wsReadyState, isConnected, heartbeatTimer, intervals,
                               reconnectTimers, reconnectAttempt, storage, syncTasks,
                               execTasks>>
                /\ extOut' = <<>>
                /\ wsReadyState'[s] = "OPEN"]_vars

C21_FailuresResolveNeverReject ==
    /\ [](\A c \in 1..Len(calls) : calls[c].rejectCalls = 0)
    /\ [][(Started /\ ~Connected)
           => LET c == Len(calls')
              IN calls'[c].settled /\ calls'[c].resolveCalls = 1
                 /\ calls'[c].result.isError]_vars
    /\ [][\A c \in 1..Len(calls) :
             (TimerFire(c) /\ ~calls[c].settled)
             => calls'[c].result.isError /\ calls'[c].result = TimedOutResult]_vars
    /\ [][\A wsock \in Sockets : \A data \in ExecutionResults :
             (HandleMessage(wsock, data) /\ Truthy(data.error))
             => \A c \in 1..Len(calls) :
                   Settles(c)
                   => /\ calls'[c].result.isError
                      /\ calls'[c].result.text = "Script execution error: " \o data.error.s]_vars

\* one invocation has ended by the peer's error and another by its timeout
C21_Witness ==
    /\ Len(calls) = 2
    /\ \E c, d \in 1..2 :
          /\ calls[c].settled /\ calls[c].result = PeerErrorResult("boom")
          /\ calls[d].settled /\ calls[d].result = TimedOutResult

\* the result the handler of execution_result resolves with
ResultOf(data) ==
    IF Truthy(data.error) THEN PeerErrorResult(data.error.s) ELSE SuccessResult(data.result)

\* C22: when an execution_result is handled, every invocation in flight under
\* that requestId is resolved with that message's result, and every other
\* invocation, its entry in pendingRequests and its timer are left as they
\* were.
C22_IndependentCorrelation ==
    [][\A wsock \in Sockets : \A data \in ExecutionResults :
          HandleMessage(wsock, data)
          => \A c \in 1..Len(calls) :
                IF InFlight(c) /\ calls[c].requestId = data.requestId
                THEN calls'[c].settled /\ calls'[c].result = ResultOf(data)
                ELSE /\ calls'[c] = calls[c]
                     /\ (c \in timers <=> c \in timers')
                     /\ \A r \in DOMAIN pendingRequests :
                           (r # data.requestId /\ pendingRequests[r].resolve = c)
                           => (r \in DOMAIN pendingRequests'
                               /\ pendingRequests'[r] = pendingRequests[r])]_vars

\* ------------------------------------------------------------------------
\* Properties of the two ends together
\* ------------------------------------------------------------------------
\* the registration state st holds the script with these fields and exposes
\* its tool
RegisteredIn(st, script) ==
    /\ script.name \in Keys(st.registry)
    /\ MapGet(st.registry, script.name)
         = [description |-> script.description, urlPattern |-> script.urlPattern,
            code |-> script.code]
    /\ ToolName(script.name) \in DOMAIN st.handles
    /\ st.handles[ToolName(script.name)].name = script.name

Registered(script) == RegisteredIn(RegState, script)

\* nothing is on its way: no popup message to forward, no syncAllScripts
\* call running, no message on `ws` that the server has still to handle
Quiet ==
    /\ popupMessages = <<>>
    /\ syncTasks = {}
    /\ ws # NoSocket /\ wire[ws] = <<>>

\* C23: the server's handling of a register_script message leaves the script
\* registered with the fields sent and its tool monkey_<name> exposed; and
\* whenever the extension is connected and nothing is on its way, every
\* script saved in storage is registered on the server with the saved
\* description, URL pattern and code and has its tool exposed.
C23_SavedScriptRegistered ==
    /\ [][\A s \in 1..MaxExtSockets :
             (Deliver(s) /\ Head(wire[s]).type = "register_script")
             => RegisteredIn([registry |-> scriptRegistry', handles |-> toolHandles'],
                             Head(wire[s]))]_vars
    /\ []((WsIsOpen /\ Quiet) => \A i \in 1..Len(storage) : Registered(storage[i]))

\* the scripts that are callable: those a held tool handle is bound to, with
\* the description and URL pattern the registry holds for them
CallableScripts ==
    {[name |-> toolHandles[t].name,
      description |-> MapGet(scriptRegistry, toolHandles[t].name).description,
      urlPattern |-> MapGet(scriptRegistry, toolHandles[t].name).urlPattern] :
        t \in {u \in DOMAIN toolHandles : toolHandles[u].name \in Keys(scriptRegistry)}}

\* C24: a call of mcp_monkey_status changes no state and returns
\* extensionConnected true iff a socket is held and OPEN, and as
\* registeredScripts exactly the scripts that are callable tools, each once,
\* with their description and URL pattern.
C24_StatusReportsState ==
    [][InvokeStatus
       => LET r == out'[1].result
          IN /\ r.extensionConnected
                  = (extensionSocket # NoSocket /\ readyState[extensionSocket] = "OPEN")
             /\ {r.registeredScripts[i] : i \in 1..Len(r.registeredScripts)}
                  = CallableScripts
             /\ Len(r.registeredScripts) = Cardinality(CallableScripts)
             /\ UNCHANGED <<scriptRegistry, toolHandles, pendingRequests, extensionSocket,
                            readyState, timers, calls>>]_vars

\* C25: in the step that hands an execute_script message for requestId r to
\* the socket, pendingRequests holds r and the timer of that entry is armed
\* for now + EXECUTION_TIMEOUT_MS; and an execution_result for a requestId
\* that was sent is handled with the requestId absent from pendingRequests
\* only after an invocation with that requestId has completed.
C25_EntryBeforeTransmission ==
    /\ [][\A i \in ExecuteSends(out') :
             LET r == out'[i].msg.requestId
             IN /\ r \in DOMAIN pendingRequests'
                /\ pendingRequests'[r].timer \in timers'
                /\ calls'[pendingRequests'[r].timer].requestId = r
                /\ calls'[pendingRequests'[r].timer].deadline = now + EXECUTION_TIMEOUT_MS]_vars
    /\ [][\A wsock \in Sockets : \A data \in ExecutionResults :
             (/\ HandleMessage(wsock, data)
              /\ data.requestId \in DispatchedIds
              /\ data.requestId \notin DOMAIN pendingRequests)
             => \E c \in 1..Len(calls) :
                   calls[c].requestId = data.requestId /\ calls[c].settled]_vars

\* an execute_script has just been sent, and its entry and timer are there
C25_Witness ==
    /\ out # <<>>
    /\ ExecuteSends(out) = {1}
    /\ out[1].msg.requestId \in DOMAIN pendingRequests
    /\ pendingRequests[out[1].msg.requestId].timer \in timers

\* ------------------------------------------------------------------------
\* Properties of the extension's executions
\* ------------------------------------------------------------------------
\* the execution_result messages for requestId that a step emitted
ResultSends(o, requestId) ==
    {i \in 1..Len(o) : o[i].msg.type = "execution_result"
                        /\ o[i].msg.requestId = requestId}

\* a value and no error, or an error message and no value
ValueXorError(msg) ==
    \/ msg.result # JSNull /\ ~msg.error.def
    \/ msg.result = JSNull /\ msg.error.def /\ msg.error.s # ""

\* C26: the step that ends the handling of an execute_script sends at most
\* one execution_result with its requestId: exactly one, on the socket the
\* request came on, when that socket is OPEN, none when it is not; the
\* result carries a non-null value and no error or a non-empty error and a
\* null value; and no other step sends an execution_result.
C26_OneResultPerExecution ==
    /\ [][\A t \in execTasks : \A outcome \in ExecOutcomes :
             ExecFinish(t, outcome)
             => LET sent == ResultSends(extOut', t.requestId)
                IN /\ Cardinality(sent) <= 1
                   /\ wsReadyState[t.conn] = "OPEN"
                      => Cardinality(sent) = 1 /\ \A i \in sent : extOut'[i].to = t.conn
                   /\ wsReadyState[t.conn] # "OPEN" => sent = {}
                   /\ \A i \in sent : ValueXorError(extOut'[i].msg)]_vars
    /\ [][(\E i \in 1..Len(extOut') : extOut'[i].msg.type = "execution_result")
           => \E t \in execTasks : ~t.done /\ ResultSends(extOut', t.requestId) # {}]_vars

\* the sockets that are CONNECTING or OPEN
LiveSockets == {s \in Created : wsReadyState[s] \in {"CONNECTING", "OPEN"}}

\* C27: at most one socket is CONNECTING or OPEN, and it is the one `ws`
\* holds; at most one reconnect timer is pending; and no reconnect timer is
\* pending while a socket is CONNECTING or OPEN.
C27_NoDuplicateAttempts ==
    /\ Cardinality(LiveSockets) <= 1
    /\ LiveSockets \subseteq {ws}
    /\ Len(reconnectTimers) <= 1
    /\ ~(LiveSockets # {} /\ reconnectTimers # <<>>)

\* two connections have come and gone, and one reconnect timer is pending
C27_Witness ==
    /\ wsReadyState = <<"CLOSED", "CLOSED">>
    /\ Len(reconnectTimers) = 1
    /\ reconnectAttempt = 1

\* the registration state after the server has handled a registering message
AfterMessage(st, data) ==
    CASE data.type = "register_script" ->
             registerScriptAsTool(st, data.name, data.description, data.urlPattern,
                                  data.code)
      [] data.type = "scripts_sync" /\ data.isArray -> RegisterAll(st, data.scripts)
      [] OTHER -> st

RegisteringInbound == {m \in RegistryInbound : m.type \in {"register_script", "scripts_sync"}}

\* the calls that data makes are the last calls made
JustHandled(data) ==
    /\ CallsOf(data) # <<>>
    /\ Len(history) >= Len(CallsOf(data))
    /\ SubSeq(history, Len(history) - Len(CallsOf(data)) + 1, Len(history)) = CallsOf(data)

\* C28: from every reachable state of the registry, handling a scripts_sync
\* or a register_script message twice gives the scriptRegistry and the tools
\* (names and the scripts they are bound to) that handling it once gives; and
\* a step that handles such a message right after the same message changes
\* neither.
C28_RegistrationIdempotent ==
    /\ [](\A data \in RegisteringInbound :
             AfterMessage(AfterMessage(RegState, data), data) = AfterMessage(RegState, data))
    /\ [][\A wsock \in Sockets : \A data \in RegisteringInbound :
             (HandleMessageLogged(wsock, data) /\ JustHandled(data))
             => scriptRegistry' = scriptRegistry /\ toolHandles' = toolHandles]_vars

\* register_script for "a" has been handled twice in a row
C28_Witness ==
    /\ history = <<RegisterCall(Script("a", "d1", "u1", "c1")),
                   RegisterCall(Script("a", "d1", "u1", "c1"))>>
    /\ Len(scriptRegistry) = 1
    /\ DOMAIN toolHandles = {"monkey_a"}

\* C29: every tool handle held is bound to a script name that is in
\* scriptRegistry; and every execute_script message sent names a script that
\* is in scriptRegistry and carries the code and the URL pattern stored for
\* it at that moment.
C29_ToolsBoundToRegistered ==
    /\ [](\A t \in DOMAIN toolHandles : toolHandles[t].name \in Keys(scriptRegistry))
    /\ [][\A i \in ExecuteSends(out') :
             LET m == out'[i].msg
             IN /\ m.scriptName \in Keys(scriptRegistry)
                /\ m.code = MapGet(scriptRegistry, m.scriptName).code
                /\ m.urlPattern = MapGet(scriptRegistry, m.scriptName).urlPattern]_vars

\* "a" and then "A" were registered, "b" was unregistered, and monkey_a has
\* just been invoked: the message names "A"
C29_Witness ==
    /\ Len(history) = 3
    /\ history[1].script.name = "a" /\ history[2].script.name = "A"
    /\ history[3].call = "unregister"
    /\ ExecuteSends(out) = {1}
    /\ out[1].msg.scriptName = "A"

\* C30: every entry of pendingRequests has its timer armed, that timer is the
\* only one armed for its requestId, and its caller has not completed; every
\* armed timer is the timer of an entry in the table; a step that completes
\* an invocation by an execution_result leaves no timer armed for it; and a
\* timer fires only for an invocation that has not completed.
C30_EntryHasOneTimer ==
    /\ [](\A r \in DOMAIN pendingRequests :
             /\ pendingRequests[r].timer \in timers
             /\ {c \in timers : calls[c].requestId = r} = {pendingRequests[r].timer}
             /\ ~calls[pendingRequests[r].resolve].settled)
    /\ [](\A c \in timers :
             /\ calls[c].requestId \in DOMAIN pendingRequests
             /\ pendingRequests[calls[c].requestId].timer = c)
    /\ [][\A wsock \in Sockets : \A data \in ExecutionResults :
             HandleMessage(wsock, data)
             => \A c \in 1..Len(calls) : Settles(c) => c \notin timers']_vars
    /\ [][\A c \in 1..Len(calls) : TimerFire(c) => ~calls[c].settled]_vars

====
